---------------------------- MODULE Spec2Model ----------------------------
(***************************************************************************)
(* Live auction engine of BPL_Backend (socket handlers of the auction).    *)
(*                                                                         *)
(* The stores (Player, Team, Bid, AuctionState) are the persisted          *)
(* documents; the module-level "let" variables of the socket module are    *)
(* the globals.  Every async handler is a frame (a record holding its      *)
(* position and the documents it has loaded) that advances one await at a  *)
(* time: a step is the effect of the awaited store operation followed by   *)
(* the synchronous code up to the next await.  Frames of different         *)
(* handlers interleave freely, as Node's event loop lets them.             *)
(***************************************************************************)
EXTENDS Integers, Sequences, FiniteSets, TLC

VARIABLES
    player,               \* Player collection: lot id -> document
    team,                 \* Team collection: team id -> document
    bids,                 \* Bid collection, in insertion order
    auctionState,         \* the AuctionState singleton, or NoState
    auctionTimer,         \* TRUE iff the interval handle is set (line 6)
    timerValue,           \* line 7
    playerQueue,          \* line 8
    isAutoAuction,        \* line 9
    unsoldPlayers,        \* line 10
    isTeamSummaryShowing, \* line 11
    connectedTeams,       \* teams whose socket is in the connectedTeams map
    adminSockets,         \* TRUE iff the control socket is in adminSockets
    envTimerDuration,     \* process.env.TIMER_DURATION as parsed (0: unset)
    pendingAdvance,       \* setTimeout callbacks of handleAutoSold not yet run
    bidReqs,              \* frames of bid:place in flight
    settleReqs,           \* frames of handleAutoSold in flight
    startReqs,            \* frames of startAuctionForPlayer in flight
    undoReqs,             \* frames of admin:undoSale in flight
    emitted,              \* events emitted by the latest step (when logEvents)
    logEvents,            \* whether emitted events are recorded in this run
    fired                 \* history: settlements triggered by the latest countdown

vars == <<player, team, bids, auctionState, auctionTimer, timerValue,
          playerQueue, isAutoAuction, unsoldPlayers, isTeamSummaryShowing,
          connectedTeams, adminSockets, envTimerDuration, pendingAdvance,
          bidReqs, settleReqs, startReqs, undoReqs, emitted, logEvents,
          fired>>

storeVars  == <<player, team, bids, auctionState>>
timerVars  == <<auctionTimer, timerValue, fired>>
queueVars  == <<playerQueue, isAutoAuction, unsoldPlayers, pendingAdvance>>
socketVars == <<connectedTeams, adminSockets>>
frameVars  == <<bidReqs, settleReqs, startReqs, undoReqs>>
envVars    == <<envTimerDuration, logEvents>>

----------------------------------------------------------------------------
(* Bounds of the model *)

MaxBids == 3            \* Bid documents in the ledger
MaxBidHandlers == 2     \* bid:place frames in flight at once
MaxSettleHandlers == 2  \* handleAutoSold frames in flight at once
MaxStartHandlers == 1   \* startAuctionForPlayer frames in flight at once
MaxPending == 1         \* cool-down timeouts pending at once
MaxUndoHandlers == 2    \* admin:undoSale frames in flight at once
MaxFaultSales == 1      \* lots on a roster beyond which no write is made to fail

(* Fixtures: the documents the external stores hold, and the amounts bid *)
LotIds == {1, 2}
TeamIds == {1, 2}
BasePriceOf(l) == IF l = 1 THEN 20 ELSE 10
BidAmounts == {10, 20, 60}
QueueLotIds == {1, 2, 3}

----------------------------------------------------------------------------
(* Program constants *)

Null == 0
DefaultTimerDuration == 20
ReplenishValue == 10
AuctionFloor == 5
InitialBudget == 110

\* AuctionState.findOne() finding no document
NoState == [exists |-> FALSE, currentPlayer |-> Null, hbAmount |-> 0,
            hbTeam |-> Null, isActive |-> FALSE, isPaused |-> FALSE]

Lots == DOMAIN player
Teams == DOMAIN team

\* Number.parseInt(process.env.TIMER_DURATION) || 20
TimerDuration == IF envTimerDuration = 0 THEN DefaultTimerDuration ELSE envTimerDuration

----------------------------------------------------------------------------
(* Timer functions.  Each returns the new value of the global it assigns. *)

\* (mutation of stopTimer: the interval is left running)
stopTimerLeftRunning(handle) == handle

\* stopTimer: clearInterval and forget the handle (lines 443-448)
stopTimer(handle) == FALSE

\* (mutation of resetTimer: a bid never shortens the time left)
resetTimerOnlyExtends(value) == IF value > ReplenishValue THEN value ELSE ReplenishValue

\* resetTimer: the value timerValue takes on an accepted bid (lines 450-454)
resetTimer(value) == ReplenishValue

\* startTimer: stopTimer, timerValue := duration, setInterval
StartTimer ==
    /\ auctionTimer' = TRUE
    /\ timerValue' = TimerDuration
    /\ fired' = 0

\* io.emit / socket.emit of the step
Emit(events) == emitted' = IF logEvents THEN events ELSE {}

\* the smallest frame id not in use among the frames fs
FreeId(fs, max) == CHOOSE i \in 1..max :
    /\ \A f \in fs : f.id # i
    /\ \A j \in 1..(i - 1) : \E f \in fs : f.id = j

----------------------------------------------------------------------------
(* Connections *)

\* team:login
TeamLogin(t, pinOk) ==
    /\ IF t \in Teams /\ pinOk
       THEN /\ team' = [team EXCEPT ![t].isOnline = TRUE]
            /\ connectedTeams' = connectedTeams \cup {t}
            /\ Emit({"auth:success"})
       ELSE /\ UNCHANGED <<team, connectedTeams>>
            /\ Emit({"auth:error"})
    /\ UNCHANGED <<player, bids, auctionState, timerVars, queueVars,
                   isTeamSummaryShowing, adminSockets, frameVars, envVars>>

\* admin:login
AdminLogin(passwordOk) ==
    /\ IF passwordOk
       THEN adminSockets' = TRUE /\ Emit({"auth:success"})
       ELSE adminSockets' = adminSockets /\ Emit({"auth:error"})
    /\ UNCHANGED <<storeVars, timerVars, queueVars, isTeamSummaryShowing,
                   connectedTeams, frameVars, envVars>>

\* (mutation of TeamDisconnect: the high bid the team holds is withdrawn)
TeamDisconnectWithdraws(t) ==
    /\ t \in connectedTeams
    /\ team' = [team EXCEPT ![t].isOnline = FALSE]
    /\ connectedTeams' = connectedTeams \ {t}
    /\ auctionState' = IF auctionState.exists /\ auctionState.hbTeam = t
                       THEN [auctionState EXCEPT !.hbTeam = Null]
                       ELSE auctionState
    /\ Emit({})
    /\ UNCHANGED <<player, bids, timerVars, queueVars,
                   isTeamSummaryShowing, adminSockets, frameVars, envVars>>

\* disconnect of a team's socket
TeamDisconnect(t) ==
    /\ t \in connectedTeams
    /\ team' = [team EXCEPT ![t].isOnline = FALSE]
    /\ connectedTeams' = connectedTeams \ {t}
    /\ Emit({})
    /\ UNCHANGED <<player, bids, auctionState, timerVars, queueVars,
                   isTeamSummaryShowing, adminSockets, frameVars, envVars>>

\* disconnect of the control socket
AdminDisconnect ==
    /\ adminSockets
    /\ adminSockets' = FALSE
    /\ Emit({})
    /\ UNCHANGED <<storeVars, timerVars, queueVars, isTeamSummaryShowing,
                   connectedTeams, frameVars, envVars>>

\* bigscreen:summaryStarting
SummaryStarting ==
    /\ isTeamSummaryShowing' = TRUE
    /\ Emit({"teamSummary:showing"})
    /\ UNCHANGED <<storeVars, timerVars, queueVars, socketVars, frameVars, envVars>>

\* bigscreen:summaryComplete
SummaryComplete ==
    /\ isTeamSummaryShowing' = FALSE
    /\ Emit({"teamSummary:showing"})
    /\ UNCHANGED <<storeVars, timerVars, queueVars, socketVars, frameVars, envVars>>

----------------------------------------------------------------------------
(* bid:place *)

\* the validation of lines 127-161: the error it reports, "" when it passes
BidError(amount, hbAmount, hbTeam, points, t) ==
    IF hbTeam = Null /\ amount < hbAmount THEN "Bid must be at least"
    ELSE IF hbTeam # Null /\ amount <= hbAmount THEN "Bid must be higher"
    ELSE IF amount > points THEN "Insufficient points"
    ELSE IF hbTeam # Null /\ hbTeam = t THEN "Already highest bidder"
    ELSE ""

\* the handler up to the end of AuctionState.findOne (lines 108-118)
BidPlace(t, amount) ==
    /\ Cardinality(bidReqs) < MaxBidHandlers
    /\ Len(bids) + Cardinality(bidReqs) < MaxBids
    /\ IF t \notin connectedTeams
       THEN bidReqs' = bidReqs /\ Emit({"bid:error"})
       ELSE IF ~auctionState.exists \/ ~auctionState.isActive \/ auctionState.isPaused
       THEN bidReqs' = bidReqs /\ Emit({"bid:error"})
       ELSE /\ bidReqs' = bidReqs \cup
                  {[id |-> FreeId(bidReqs, MaxBidHandlers), pc |-> "validate",
                    team |-> t, amount |-> amount,
                    lot |-> auctionState.currentPlayer,
                    hbAmount |-> auctionState.hbAmount,
                    hbTeam |-> auctionState.hbTeam]}
            /\ Emit({})
    /\ UNCHANGED <<storeVars, timerVars, queueVars, isTeamSummaryShowing,
                   socketVars, settleReqs, startReqs, undoReqs, envVars>>

\* (mutation of BidValidate: the Bid is saved before the amount is validated)
BidValidateRecordsFirst(h) ==
    /\ h.pc = "validate"
    /\ IF h.lot \notin Lots \/ player[h.lot].status # "IN_AUCTION"
       THEN bidReqs' = bidReqs \ {h} /\ Emit({"bid:error"}) /\ UNCHANGED bids
       ELSE IF BidError(h.amount, h.hbAmount, h.hbTeam,
                        team[h.team].remainingPoints, h.team) # ""
       THEN /\ bidReqs' = bidReqs \ {h} /\ Emit({"bid:error"})
            /\ bids' = Append(bids, [player |-> h.lot, team |-> h.team,
                                     amount |-> h.amount])
       ELSE /\ bidReqs' = (bidReqs \ {h}) \cup {[h EXCEPT !.pc = "saveBid"]}
            /\ Emit({})
            /\ UNCHANGED bids
    /\ UNCHANGED <<player, team, auctionState, timerVars, queueVars, isTeamSummaryShowing,
                   socketVars, settleReqs, startReqs, undoReqs, envVars>>

\* Team.findById, Player.findById and the validation (lines 120-161)
BidValidate(h) ==
    /\ h.pc = "validate"
    /\ IF h.lot \notin Lots \/ player[h.lot].status # "IN_AUCTION"
       THEN bidReqs' = bidReqs \ {h} /\ Emit({"bid:error"})
       ELSE IF BidError(h.amount, h.hbAmount, h.hbTeam,
                        team[h.team].remainingPoints, h.team) # ""
       THEN bidReqs' = bidReqs \ {h} /\ Emit({"bid:error"})
       ELSE /\ bidReqs' = (bidReqs \ {h}) \cup {[h EXCEPT !.pc = "saveBid"]}
            /\ Emit({})
    /\ UNCHANGED <<storeVars, timerVars, queueVars, isTeamSummaryShowing,
                   socketVars, settleReqs, startReqs, undoReqs, envVars>>

\* bid.save() (lines 163-170)
BidSave(h) ==
    /\ h.pc = "saveBid"
    /\ bids' = Append(bids, [player |-> h.lot, team |-> h.team, amount |-> h.amount])
    /\ bidReqs' = (bidReqs \ {h}) \cup {[h EXCEPT !.pc = "saveState"]}
    /\ Emit({})
    /\ UNCHANGED <<player, team, auctionState, timerVars, queueVars,
                   isTeamSummaryShowing, socketVars, settleReqs, startReqs, undoReqs, envVars>>

\* auctionState.save(), resetTimer and the broadcast (lines 172-201)
BidSaveState(h) ==
    /\ h.pc = "saveState"
    /\ auctionState' = [auctionState EXCEPT !.hbAmount = h.amount, !.hbTeam = h.team]
    /\ timerValue' = resetTimer(timerValue)
    /\ bidReqs' = bidReqs \ {h}
    /\ Emit({"timer:reset", "bid:new", "bid:success"})
    /\ UNCHANGED <<player, team, bids, auctionTimer, fired, queueVars,
                   isTeamSummaryShowing, socketVars, settleReqs, startReqs, undoReqs, envVars>>

----------------------------------------------------------------------------
(* the countdown and handleAutoSold *)

\* the setInterval callback (lines 429-440) with the synchronous start of
\* handleAutoSold (line 457)
TimerTick ==
    /\ auctionTimer
    /\ timerValue' = timerValue - 1
    /\ IF timerValue - 1 <= 0
       THEN /\ Cardinality(settleReqs) < MaxSettleHandlers
            /\ auctionTimer' = stopTimer(auctionTimer)
            /\ fired' = fired + 1
            /\ settleReqs' = settleReqs \cup
                  {[id |-> FreeId(settleReqs, MaxSettleHandlers), pc |-> "find",
                    lot |-> Null, winner |-> Null, soldPrice |-> 0,
                    points |-> 0, slots |-> 0]}
       ELSE UNCHANGED <<auctionTimer, fired, settleReqs>>
    /\ Emit({"timer:update"})
    /\ UNCHANGED <<storeVars, queueVars, isTeamSummaryShowing, socketVars,
                   bidReqs, startReqs, undoReqs, envVars>>

\* AuctionState.findOne().populate(...) (lines 460-468)
SettleFind(s) ==
    /\ s.pc = "find"
    /\ IF ~auctionState.exists \/ auctionState.currentPlayer = Null
       THEN settleReqs' = settleReqs \ {s}
       ELSE LET w == auctionState.hbTeam IN
            settleReqs' = (settleReqs \ {s}) \cup
                {[s EXCEPT !.pc = "savePlayer",
                           !.lot = auctionState.currentPlayer,
                           !.winner = w,
                           !.soldPrice = auctionState.hbAmount,
                           !.points = IF w = Null THEN 0 ELSE team[w].remainingPoints,
                           !.slots = IF w = Null THEN 0 ELSE team[w].rosterSlotsFilled]}
    /\ Emit({})
    /\ UNCHANGED <<storeVars, timerVars, queueVars, isTeamSummaryShowing,
                   socketVars, bidReqs, startReqs, undoReqs, envVars>>

\* (mutation of SettleSavePlayer: the carry list is pushed to without the
\* includes test)
SettleSavePlayerNoIncludes(s) ==
    /\ s.pc = "savePlayer"
    /\ IF s.winner # Null
       THEN /\ player' = [player EXCEPT ![s.lot].status = "SOLD",
                                        ![s.lot].soldTo = s.winner,
                                        ![s.lot].soldPrice = s.soldPrice,
                                        ![s.lot].soldAt = TRUE]
            /\ settleReqs' = (settleReqs \ {s}) \cup {[s EXCEPT !.pc = "saveTeam"]}
            /\ UNCHANGED unsoldPlayers
            /\ Emit({})
       ELSE /\ player' = [player EXCEPT ![s.lot].status = "UNSOLD"]
            /\ settleReqs' = (settleReqs \ {s}) \cup {[s EXCEPT !.pc = "saveState"]}
            /\ IF isAutoAuction
               THEN unsoldPlayers' = Append(unsoldPlayers, s.lot)
                    /\ Emit({"autoAuction:playerUnsold"})
               ELSE UNCHANGED unsoldPlayers /\ Emit({})
    /\ UNCHANGED <<team, bids, auctionState, timerVars, playerQueue, isAutoAuction,
                   pendingAdvance, isTeamSummaryShowing, socketVars, bidReqs,
                   startReqs, undoReqs, envVars>>

\* player.save() of either branch, and the carry list (lines 470-476, 495-507)
SettleSavePlayer(s) ==
    /\ s.pc = "savePlayer"
    /\ IF s.winner # Null
       THEN /\ player' = [player EXCEPT ![s.lot].status = "SOLD",
                                        ![s.lot].soldTo = s.winner,
                                        ![s.lot].soldPrice = s.soldPrice,
                                        ![s.lot].soldAt = TRUE]
            /\ settleReqs' = (settleReqs \ {s}) \cup {[s EXCEPT !.pc = "saveTeam"]}
            /\ UNCHANGED unsoldPlayers
            /\ Emit({})
       ELSE /\ player' = [player EXCEPT ![s.lot].status = "UNSOLD"]
            /\ settleReqs' = (settleReqs \ {s}) \cup {[s EXCEPT !.pc = "saveState"]}
            /\ IF isAutoAuction /\ \A i \in 1..Len(unsoldPlayers) : unsoldPlayers[i] # s.lot
               THEN unsoldPlayers' = Append(unsoldPlayers, s.lot)
                    /\ Emit({"autoAuction:playerUnsold"})
               ELSE UNCHANGED unsoldPlayers /\ Emit({})
    /\ UNCHANGED <<team, bids, auctionState, timerVars, playerQueue, isAutoAuction,
                   pendingAdvance, isTeamSummaryShowing, socketVars, bidReqs,
                   startReqs, undoReqs, envVars>>

\* winningTeam.save() (lines 478-482)
SettleSaveTeam(s) ==
    /\ s.pc = "saveTeam"
    /\ team' = [team EXCEPT ![s.winner].remainingPoints = s.points - s.soldPrice,
                            ![s.winner].rosterSlotsFilled = s.slots + 1,
                            ![s.winner].players = Append(@, s.lot)]
    /\ settleReqs' = (settleReqs \ {s}) \cup {[s EXCEPT !.pc = "saveState"]}
    /\ Emit({})
    /\ UNCHANGED <<player, bids, auctionState, timerVars, queueVars,
                   isTeamSummaryShowing, socketVars, bidReqs, startReqs, undoReqs, envVars>>

\* auctionState.save(), the broadcast and the cool-down (lines 510-534)
SettleSaveState(s) ==
    /\ s.pc = "saveState"
    /\ auctionState' = [auctionState EXCEPT !.isActive = FALSE,
                                            !.currentPlayer = Null,
                                            !.hbAmount = AuctionFloor,
                                            !.hbTeam = Null]
    /\ settleReqs' = settleReqs \ {s}
    /\ pendingAdvance' = IF isAutoAuction THEN pendingAdvance + 1 ELSE pendingAdvance
    /\ Emit({"player:sold"})
    /\ UNCHANGED <<player, team, bids, timerVars, playerQueue, isAutoAuction,
                   unsoldPlayers, isTeamSummaryShowing, socketVars, bidReqs,
                   startReqs, undoReqs, envVars>>

\* a save() of handleAutoSold rejects: control passes to the catch block,
\* which only logs (lines 536-538); nothing is written, emitted or scheduled
SettleWriteFails(s) ==
    /\ s.pc \in {"savePlayer", "saveTeam", "saveState"}
    /\ settleReqs' = settleReqs \ {s}
    /\ Emit({})
    /\ UNCHANGED <<storeVars, timerVars, queueVars, isTeamSummaryShowing,
                   socketVars, bidReqs, startReqs, undoReqs, envVars>>

----------------------------------------------------------------------------
(* startAuctionForPlayer and the auto-run queue *)

\* (mutation of advance: the carry list is not emptied when it becomes the
\* queue of the next round)
advanceCarryKept(queue, unsold) ==
    IF queue # <<>>
    THEN [queue |-> Tail(queue), unsold |-> unsold, next |-> Head(queue),
          done |-> FALSE, rolled |-> FALSE]
    ELSE IF unsold # <<>>
    THEN [queue |-> Tail(unsold), unsold |-> unsold, next |-> Head(unsold),
          done |-> FALSE, rolled |-> TRUE]
    ELSE [queue |-> <<>>, unsold |-> <<>>, next |-> Null,
          done |-> TRUE, rolled |-> FALSE]

\* processNextPlayerInQueue up to its first await (lines 541-583): the queue
\* and carry list it leaves, the lot it goes on to start, or done
RECURSIVE advance(_, _)
advance(queue, unsold) ==
    IF queue # <<>>
    THEN [queue |-> Tail(queue), unsold |-> unsold, next |-> Head(queue),
          done |-> FALSE, rolled |-> FALSE]
    ELSE IF unsold # <<>>
    THEN [advance(unsold, <<>>) EXCEPT !.rolled = TRUE]
    ELSE [queue |-> <<>>, unsold |-> <<>>, next |-> Null,
          done |-> TRUE, rolled |-> FALSE]

StartFrame(l, auto, others) ==
    [id |-> FreeId(others, MaxStartHandlers), pc |-> "find", lot |-> l, auto |-> auto]

\* (mutation of ProcessNext: the mode flag is left as it is when both lists
\* are empty)
ProcessNextKeepsMode(queue, unsold, flag, others) ==
    LET r == advance(queue, unsold) IN
    /\ playerQueue' = r.queue
    /\ unsoldPlayers' = r.unsold
    /\ IF r.done
       THEN /\ isAutoAuction' = flag
            /\ startReqs' = others
            /\ Emit({"autoAuction:completed", "auction:allCompleted"})
       ELSE /\ Cardinality(others) < MaxStartHandlers
            /\ isAutoAuction' = flag
            /\ startReqs' = others \cup {StartFrame(r.next, TRUE, others)}
            /\ Emit({"autoAuction:queueUpdate"} \cup
                    (IF r.rolled THEN {"autoAuction:unsoldRound"} ELSE {}))

\* processNextPlayerInQueue run on (queue, unsold) with auto-run flag `flag`,
\* beside the start frames `others`
ProcessNext(queue, unsold, flag, others) ==
    LET r == advance(queue, unsold) IN
    /\ playerQueue' = r.queue
    /\ unsoldPlayers' = r.unsold
    /\ IF r.done
       THEN /\ isAutoAuction' = FALSE
            /\ startReqs' = others
            /\ Emit({"autoAuction:completed", "auction:allCompleted"})
       ELSE /\ Cardinality(others) < MaxStartHandlers
            /\ isAutoAuction' = flag
            /\ startReqs' = others \cup {StartFrame(r.next, TRUE, others)}
            /\ Emit({"autoAuction:queueUpdate"} \cup
                    (IF r.rolled THEN {"autoAuction:unsoldRound"} ELSE {}))

\* (mutation of AdvanceFire: the callback does not look at the carry list)
AdvanceFireIgnoresCarry ==
    /\ pendingAdvance > 0
    /\ pendingAdvance' = pendingAdvance - 1
    /\ ProcessNext(playerQueue, <<>>, isAutoAuction, startReqs)
    /\ UNCHANGED <<storeVars, timerVars, isTeamSummaryShowing, socketVars,
                   bidReqs, settleReqs, undoReqs, envVars>>

\* the setTimeout callback of handleAutoSold (lines 531-533)
AdvanceFire ==
    /\ pendingAdvance > 0
    /\ pendingAdvance' = pendingAdvance - 1
    /\ ProcessNext(playerQueue, unsoldPlayers, isAutoAuction, startReqs)
    /\ UNCHANGED <<storeVars, timerVars, isTeamSummaryShowing, socketVars,
                   bidReqs, settleReqs, undoReqs, envVars>>

\* (mutation of StartFind: a sold lot popped from the queue ends the advance)
StartFindStallsOnSold(f) ==
    /\ f.pc = "find"
    /\ IF f.lot \in Lots /\ player[f.lot].status # "SOLD"
       THEN /\ startReqs' = (startReqs \ {f}) \cup {[f EXCEPT !.pc = "savePlayer"]}
            /\ Emit({})
            /\ UNCHANGED <<playerQueue, unsoldPlayers, isAutoAuction>>
       ELSE IF f.auto
       THEN /\ startReqs' = startReqs \ {f}
            /\ Emit({})
            /\ UNCHANGED <<playerQueue, unsoldPlayers, isAutoAuction>>
       ELSE /\ startReqs' = startReqs \ {f}
            /\ Emit({"error"})
            /\ UNCHANGED <<playerQueue, unsoldPlayers, isAutoAuction>>
    /\ UNCHANGED <<storeVars, timerVars, pendingAdvance, isTeamSummaryShowing,
                   socketVars, bidReqs, settleReqs, undoReqs, envVars>>

\* Player.findById of the caller and of startAuctionForPlayer
\* (lines 221-224, 555-561, 591-594)
StartFind(f) ==
    /\ f.pc = "find"
    /\ IF f.lot \in Lots /\ player[f.lot].status # "SOLD"
       THEN /\ startReqs' = (startReqs \ {f}) \cup {[f EXCEPT !.pc = "savePlayer"]}
            /\ Emit({})
            /\ UNCHANGED <<playerQueue, unsoldPlayers, isAutoAuction>>
       ELSE IF f.auto
       THEN ProcessNext(playerQueue, unsoldPlayers, isAutoAuction, startReqs \ {f})
       ELSE /\ startReqs' = startReqs \ {f}
            /\ Emit({"error"})
            /\ UNCHANGED <<playerQueue, unsoldPlayers, isAutoAuction>>
    /\ UNCHANGED <<storeVars, timerVars, pendingAdvance, isTeamSummaryShowing,
                   socketVars, bidReqs, settleReqs, undoReqs, envVars>>

\* player.save() with status IN_AUCTION (lines 596-598)
StartSavePlayer(f) ==
    /\ f.pc = "savePlayer"
    /\ player' = [player EXCEPT ![f.lot].status = "IN_AUCTION"]
    /\ startReqs' = (startReqs \ {f}) \cup {[f EXCEPT !.pc = "saveState"]}
    /\ Emit({})
    /\ UNCHANGED <<team, bids, auctionState, timerVars, queueVars,
                   isTeamSummaryShowing, socketVars, bidReqs, settleReqs, undoReqs, envVars>>

\* AuctionState.findOne, auctionState.save(), startTimer and the broadcast
\* (lines 600-624)
StartSaveState(f) ==
    /\ f.pc = "saveState"
    /\ auctionState' = [exists |-> TRUE,
                        currentPlayer |-> f.lot,
                        isActive |-> TRUE,
                        isPaused |-> FALSE,
                        hbAmount |-> player[f.lot].basePrice,
                        hbTeam |-> Null]
    /\ StartTimer
    /\ startReqs' = startReqs \ {f}
    /\ Emit({"timer:update", "auction:started"})
    /\ UNCHANGED <<player, team, bids, queueVars, isTeamSummaryShowing,
                   socketVars, bidReqs, settleReqs, undoReqs, envVars>>

----------------------------------------------------------------------------
(* the queue built by admin:startAutoAuction *)

\* the lots of S in the order Player.find returns them
RECURSIVE SeqOf(_)
SeqOf(S) ==
    IF S = {} THEN <<>>
    ELSE LET m == CHOOSE x \in S : \A y \in S : x <= y
         IN <<m>> \o SeqOf(S \ {m})

\* (mutation of sortedPrices: the comparator sorts ascending)
RECURSIVE sortedPricesAscending(_)
sortedPricesAscending(P) ==
    IF P = {} THEN <<>>
    ELSE LET m == CHOOSE x \in P : \A y \in P : x <= y
         IN <<m>> \o sortedPricesAscending(P \ {m})

\* sortedPrices: the prices of P in descending order (lines 329-331)
RECURSIVE sortedPrices(_)
sortedPrices(P) ==
    IF P = {} THEN <<>>
    ELSE LET m == CHOOSE x \in P : \A y \in P : x >= y
         IN <<m>> \o sortedPrices(P \ {m})

Swap(s, i, j) == [s EXCEPT ![i] = s[j], ![j] = s[i]]

\* every outcome of the Fisher-Yates loop from position i down (lines 338-341)
RECURSIVE FisherYates(_, _)
FisherYates(s, i) ==
    IF i <= 1 THEN {s}
    ELSE UNION {FisherYates(Swap(s, i, j), i - 1) : j \in 1..i}

\* every queue the grouping, sort and shuffle can produce (lines 318-346)
RECURSIVE shuffledPlayers(_, _)
shuffledPlayers(prices, available) ==
    IF prices = <<>> THEN {<<>>}
    ELSE LET playersAtPrice ==
                 SelectSeq(available, LAMBDA l : player[l].basePrice = Head(prices))
         IN {a \o b : a \in FisherYates(playersAtPrice, Len(playersAtPrice)),
                      b \in shuffledPlayers(Tail(prices), available)}

----------------------------------------------------------------------------
(* Control commands *)

\* admin:startAuction (lines 210-233)
AdminStartAuction(l) ==
    /\ pendingAdvance < MaxPending
    /\ IF ~adminSockets
       THEN startReqs' = startReqs /\ Emit({"error"})
       ELSE IF isTeamSummaryShowing
       THEN startReqs' = startReqs /\ Emit({"error"})
       ELSE /\ Cardinality(startReqs) < MaxStartHandlers
            /\ startReqs' = startReqs \cup {StartFrame(l, FALSE, startReqs)}
            /\ Emit({})
    /\ UNCHANGED <<storeVars, timerVars, queueVars, isTeamSummaryShowing,
                   socketVars, bidReqs, settleReqs, undoReqs, envVars>>

\* admin:pauseAuction (lines 235-249)
AdminPause ==
    /\ IF adminSockets /\ auctionState.exists
       THEN /\ auctionState' = [auctionState EXCEPT !.isPaused = TRUE]
            /\ auctionTimer' = stopTimer(auctionTimer)
            /\ Emit({"auction:paused"})
       ELSE UNCHANGED <<auctionState, auctionTimer>> /\ Emit({})
    /\ UNCHANGED <<player, team, bids, timerValue, fired, queueVars,
                   isTeamSummaryShowing, socketVars, frameVars, envVars>>

\* admin:resumeAuction (lines 251-265)
AdminResume ==
    /\ pendingAdvance < MaxPending
    /\ IF adminSockets /\ auctionState.exists /\ auctionState.isPaused
       THEN /\ auctionState' = [auctionState EXCEPT !.isPaused = FALSE]
            /\ StartTimer
            /\ Emit({"timer:update", "auction:resumed"})
       ELSE UNCHANGED <<auctionState, timerVars>> /\ Emit({})
    /\ UNCHANGED <<player, team, bids, queueVars, isTeamSummaryShowing,
                   socketVars, frameVars, envVars>>

\* (mutation of AdminUndoSale: the status of the lot is not tested)
AdminUndoSaleAnyStatus(l) ==
    /\ IF ~adminSockets
       THEN undoReqs' = undoReqs /\ Emit({})
       ELSE IF l \notin Lots
       THEN undoReqs' = undoReqs /\ Emit({"error"})
       ELSE /\ Cardinality(undoReqs) < MaxUndoHandlers
            /\ undoReqs' = undoReqs \cup
                  {[id |-> FreeId(undoReqs, MaxUndoHandlers), pc |-> "findTeam",
                    lot |-> l, soldTo |-> player[l].soldTo,
                    soldPrice |-> player[l].soldPrice,
                    points |-> 0, slots |-> 0, players |-> <<>>]}
            /\ Emit({})
    /\ UNCHANGED <<storeVars, timerVars, queueVars, isTeamSummaryShowing,
                   socketVars, bidReqs, settleReqs, startReqs, envVars>>

\* admin:undoSale up to the end of Player.findById (lines 267-274)
AdminUndoSale(l) ==
    /\ IF ~adminSockets
       THEN undoReqs' = undoReqs /\ Emit({})
       ELSE IF l \notin Lots \/ player[l].status # "SOLD"
       THEN undoReqs' = undoReqs /\ Emit({"error"})
       ELSE /\ Cardinality(undoReqs) < MaxUndoHandlers
            /\ undoReqs' = undoReqs \cup
                  {[id |-> FreeId(undoReqs, MaxUndoHandlers), pc |-> "findTeam",
                    lot |-> l, soldTo |-> player[l].soldTo,
                    soldPrice |-> player[l].soldPrice,
                    points |-> 0, slots |-> 0, players |-> <<>>]}
            /\ Emit({})
    /\ UNCHANGED <<storeVars, timerVars, queueVars, isTeamSummaryShowing,
                   socketVars, bidReqs, settleReqs, startReqs, envVars>>

\* Team.findById(player.soldTo) and the restored fields (lines 276-281)
UndoFindTeam(u) ==
    /\ u.pc = "findTeam"
    /\ undoReqs' = (undoReqs \ {u}) \cup
          {IF u.soldTo \in Teams
           THEN [u EXCEPT !.pc = "saveTeam",
                          !.points = team[u.soldTo].remainingPoints + u.soldPrice,
                          !.slots = team[u.soldTo].rosterSlotsFilled - 1,
                          !.players = SelectSeq(team[u.soldTo].players,
                                                LAMBDA p : p # u.lot)]
           ELSE [u EXCEPT !.pc = "savePlayer"]}
    /\ Emit({})
    /\ UNCHANGED <<storeVars, timerVars, queueVars, isTeamSummaryShowing,
                   socketVars, bidReqs, settleReqs, startReqs, envVars>>

\* team.save() (line 282)
UndoSaveTeam(u) ==
    /\ u.pc = "saveTeam"
    /\ team' = [team EXCEPT ![u.soldTo].remainingPoints = u.points,
                            ![u.soldTo].rosterSlotsFilled = u.slots,
                            ![u.soldTo].players = u.players]
    /\ undoReqs' = (undoReqs \ {u}) \cup {[u EXCEPT !.pc = "savePlayer"]}
    /\ Emit({})
    /\ UNCHANGED <<player, bids, auctionState, timerVars, queueVars,
                   isTeamSummaryShowing, socketVars, bidReqs, settleReqs,
                   startReqs, envVars>>

\* the reset of the player and player.save() (lines 285-290)
UndoSavePlayer(u) ==
    /\ u.pc = "savePlayer"
    /\ player' = [player EXCEPT ![u.lot].status = "UNSOLD",
                                ![u.lot].soldTo = Null,
                                ![u.lot].soldPrice = Null,
                                ![u.lot].soldAt = FALSE]
    /\ undoReqs' = (undoReqs \ {u}) \cup {[u EXCEPT !.pc = "deleteBids"]}
    /\ Emit({})
    /\ UNCHANGED <<team, bids, auctionState, timerVars, queueVars,
                   isTeamSummaryShowing, socketVars, bidReqs, settleReqs,
                   startReqs, envVars>>

\* Bid.deleteMany({player}) and the broadcast (lines 293-295)
UndoDeleteBids(u) ==
    /\ u.pc = "deleteBids"
    /\ bids' = SelectSeq(bids, LAMBDA b : b.player # u.lot)
    /\ undoReqs' = undoReqs \ {u}
    /\ Emit({"sale:undone"})
    /\ UNCHANGED <<player, team, auctionState, timerVars, queueVars,
                   isTeamSummaryShowing, socketVars, bidReqs, settleReqs,
                   startReqs, envVars>>

\* admin:startAutoAuction (lines 303-363)
AdminStartAutoAuction ==
    /\ pendingAdvance < MaxPending
    /\ IF ~adminSockets
       THEN UNCHANGED <<playerQueue, unsoldPlayers, isAutoAuction, startReqs>>
            /\ Emit({"error"})
       ELSE LET availablePlayers == SeqOf({l \in Lots : player[l].status # "SOLD"}) IN
            IF availablePlayers = <<>>
            THEN UNCHANGED <<playerQueue, unsoldPlayers, isAutoAuction, startReqs>>
                 /\ Emit({"error"})
            ELSE \E q \in shuffledPlayers(
                            sortedPrices({player[availablePlayers[i]].basePrice :
                                             i \in 1..Len(availablePlayers)}),
                            availablePlayers) :
                     ProcessNext(q, <<>>, TRUE, startReqs)
    /\ UNCHANGED <<storeVars, timerVars, pendingAdvance, isTeamSummaryShowing,
                   socketVars, bidReqs, settleReqs, undoReqs, envVars>>

\* admin:stopAutoAuction (lines 366-376)
AdminStopAutoAuction ==
    /\ IF adminSockets
       THEN /\ isAutoAuction' = FALSE
            /\ auctionTimer' = stopTimer(auctionTimer)
            /\ Emit({"autoAuction:stopped"})
       ELSE UNCHANGED <<isAutoAuction, auctionTimer>> /\ Emit({})
    /\ UNCHANGED <<storeVars, timerValue, fired, playerQueue, unsoldPlayers,
                   pendingAdvance, isTeamSummaryShowing, socketVars, frameVars,
                   envVars>>

\* admin:getAutoAuctionStatus (lines 379-388)
AdminGetAutoAuctionStatus ==
    /\ Emit(IF adminSockets THEN {"autoAuction:status"} ELSE {})
    /\ UNCHANGED <<storeVars, timerVars, queueVars, isTeamSummaryShowing,
                   socketVars, frameVars, envVars>>

----------------------------------------------------------------------------
(* Specifications *)

\* the collections after POST /reset (src/routes/adminRoutes.js), holding the
\* lots `lots`, with every team's isOnline flag `online`
InitStores(lots, online) ==
    /\ player = [l \in lots |->
                   [basePrice |-> BasePriceOf(l), status |-> "UNSOLD",
                    soldTo |-> Null, soldPrice |-> Null, soldAt |-> FALSE]]
    /\ team = [t \in TeamIds |->
                 [remainingPoints |-> InitialBudget, rosterSlotsFilled |-> 0,
                  players |-> <<>>, isOnline |-> online]]
    /\ bids = <<>>
    /\ auctionState = NoState

\* the module-level variables of a fresh process (lines 6-11, 15-17)
InitGlobals ==
    /\ auctionTimer = FALSE
    /\ timerValue = TimerDuration
    /\ playerQueue = <<>>
    /\ isAutoAuction = FALSE
    /\ unsoldPlayers = <<>>
    /\ isTeamSummaryShowing = FALSE
    /\ pendingAdvance = 0
    /\ bidReqs = {}
    /\ settleReqs = {}
    /\ startReqs = {}
    /\ undoReqs = {}
    /\ emitted = {}
    /\ fired = 0

\* a fresh process: nobody has logged in
InitFresh(env, lots, log) ==
    /\ envTimerDuration = env
    /\ logEvents = log
    /\ InitStores(lots, FALSE)
    /\ InitGlobals
    /\ connectedTeams = {}
    /\ adminSockets = FALSE

\* the state once every team and the control have logged in
InitLoggedIn(env, lots, log) ==
    /\ envTimerDuration = env
    /\ logEvents = log
    /\ InitStores(lots, TRUE)
    /\ InitGlobals
    /\ connectedTeams = TeamIds
    /\ adminSockets = TRUE

BidStep ==
    \/ \E h \in bidReqs : BidValidate(h)
    \/ \E h \in bidReqs : BidSave(h)
    \/ \E h \in bidReqs : BidSaveState(h)

SettleStep ==
    \/ TimerTick
    \/ \E s \in settleReqs : SettleFind(s)
    \/ \E s \in settleReqs : SettleSavePlayer(s)
    \/ \E s \in settleReqs : SettleSaveTeam(s)
    \/ \E s \in settleReqs : SettleSaveState(s)

StartStep ==
    \/ \E f \in startReqs : StartFind(f)
    \/ \E f \in startReqs : StartSavePlayer(f)
    \/ \E f \in startReqs : StartSaveState(f)

UndoStep ==
    \/ \E u \in undoReqs : UndoFindTeam(u)
    \/ \E u \in undoReqs : UndoSaveTeam(u)
    \/ \E u \in undoReqs : UndoSavePlayer(u)
    \/ \E u \in undoReqs : UndoDeleteBids(u)

(* Spec: every handler, from a fresh process. *)
Init == InitFresh(0, LotIds, FALSE)

Next ==
    \/ \E t \in TeamIds, ok \in BOOLEAN : TeamLogin(t, ok)
    \/ \E ok \in BOOLEAN : AdminLogin(ok)
    \/ \E t \in TeamIds : TeamDisconnect(t)
    \/ AdminDisconnect
    \/ SummaryStarting
    \/ SummaryComplete
    \/ \E t \in TeamIds, a \in BidAmounts : BidPlace(t, a)
    \/ BidStep
    \/ SettleStep
    \/ \E s \in settleReqs : SettleWriteFails(s)
    \/ StartStep
    \/ AdvanceFire
    \/ \E l \in LotIds : AdminStartAuction(l)
    \/ AdminPause
    \/ AdminResume
    \/ \E l \in LotIds : AdminUndoSale(l)
    \/ UndoStep
    \/ AdminStartAutoAuction
    \/ AdminStopAutoAuction
    \/ AdminGetAutoAuctionStatus

Spec == Init /\ [][Next]_vars

\* no handler is between two awaits
Quiet == bidReqs = {} /\ settleReqs = {} /\ startReqs = {} /\ undoReqs = {}

\* the control starts a lot when none is in auction and nothing is in flight
OrderlyStart(l) ==
    /\ ~auctionState.isActive
    /\ Quiet
    /\ AdminStartAuction(l)

\* the control pauses a lot that is in auction
OrderlyPause ==
    /\ auctionState.isActive
    /\ AdminPause

(* SpecRace: one lot (base price 20) auctioned by hand, again after each     *)
(* unsold outcome, with the default countdown of 20; bids of both teams race *)
(* each other, the countdown and the settlement.                             *)
InitRace == InitLoggedIn(0, {1}, FALSE)

NextRace ==
    \/ \E l \in Lots : OrderlyStart(l)
    \/ StartStep
    \/ \E t \in TeamIds, a \in BidAmounts : BidPlace(t, a)
    \/ BidStep
    \/ SettleStep

SpecRace == InitRace /\ [][NextRace]_vars

(* SpecSettle: one lot, TIMER_DURATION=2, bids of 60; the control pauses,    *)
(* resumes and stops auto-run while bids and settlements are in flight.      *)
InitSettle == InitLoggedIn(2, {1}, FALSE)

NextSettle ==
    \/ \E l \in Lots : OrderlyStart(l)
    \/ StartStep
    \/ \E t \in TeamIds : BidPlace(t, 60)
    \/ BidStep
    \/ SettleStep
    \/ OrderlyPause
    \/ AdminResume
    \/ AdminStopAutoAuction

SpecSettle == InitSettle /\ [][NextSettle]_vars

(* SpecAuto: two lots, TIMER_DURATION=1, nobody bids; the control starts     *)
(* lots by hand and starts and stops auto-run at any time.                   *)
InitAuto == InitLoggedIn(1, LotIds, FALSE)

NextAuto ==
    \/ \E l \in Lots : AdminStartAuction(l)
    \/ AdminStartAutoAuction
    \/ AdminStopAutoAuction
    \/ AdvanceFire
    \/ StartStep
    \/ TimerTick
    \/ \E s \in settleReqs : SettleFind(s)
    \/ \E s \in settleReqs : SettleSavePlayer(s)
    \/ \E s \in settleReqs : SettleSaveState(s)

SpecAuto == InitAuto /\ [][NextAuto]_vars

(* SpecLock: two lots, TIMER_DURATION=1, nobody bids; the big screen raises   *)
(* and drops the summary flag while the control starts lots by hand and      *)
(* starts auto-run.                                                          *)
InitLock == InitLoggedIn(1, LotIds, FALSE)

NextLock ==
    \/ SummaryStarting
    \/ SummaryComplete
    \/ \E l \in Lots : AdminStartAuction(l)
    \/ AdminStartAutoAuction
    \/ AdvanceFire
    \/ StartStep
    \/ TimerTick
    \/ \E s \in settleReqs : SettleFind(s)
    \/ \E s \in settleReqs : SettleSavePlayer(s)
    \/ \E s \in settleReqs : SettleSaveState(s)

SpecLock == InitLock /\ [][NextLock]_vars

\* the control undoes a sale while no bid, settlement or start is in progress
\* and no team holds more than the initial budget
OrderlyUndo(l) ==
    /\ bidReqs = {} /\ settleReqs = {} /\ startReqs = {}
    /\ \A t \in Teams : team[t].remainingPoints <= InitialBudget
    /\ AdminUndoSale(l)

(* SpecUndo: one lot, TIMER_DURATION=1, bids of 20; the control starts the   *)
(* lot when it is not in auction and undoes its settled sale, possibly with  *)
(* two requests at once.                                                     *)
InitUndo == InitLoggedIn(1, {1}, FALSE)

NextUndo ==
    \/ \E l \in Lots : OrderlyStart(l)
    \/ StartStep
    \/ \E t \in TeamIds : BidPlace(t, 20)
    \/ BidStep
    \/ SettleStep
    \/ \E l \in Lots : OrderlyUndo(l)
    \/ UndoStep

SpecUndo == InitUndo /\ [][NextUndo]_vars

\* the control starts auto-run while no lot is in auction, no handler is in
\* progress and no cool-down is pending
OrderlyAutoStart ==
    /\ ~auctionState.isActive
    /\ Quiet
    /\ pendingAdvance = 0
    /\ AdminStartAutoAuction

(* SpecQueue: three lots (base prices 20, 10, 10), TIMER_DURATION=1; the     *)
(* control starts auto-run, again after each run; team 1 bids 20 at any      *)
(* time, and the queue advances after each settlement.                       *)
InitQueue == InitLoggedIn(1, QueueLotIds, FALSE)

NextQueue ==
    \/ OrderlyAutoStart
    \/ AdvanceFire
    \/ StartStep
    \/ BidPlace(1, 20)
    \/ BidStep
    \/ SettleStep

SpecQueue == InitQueue /\ [][NextQueue]_vars

(* SpecRounds: the environment of SpecQueue over two lots (base prices 20    *)
(* and 10), with the emitted events recorded.                                *)
InitRounds == InitLoggedIn(1, LotIds, TRUE)

SpecRounds == InitRounds /\ [][NextQueue]_vars

(* SpecReject: two lots auctioned by hand, TIMER_DURATION=1, with the       *)
(* emitted events recorded; team 1 bids 20 or 60, team 2 bids 10 or 20 and   *)
(* may disconnect, against the countdown and the settlement.                 *)
InitReject == InitLoggedIn(1, LotIds, TRUE)

NextReject ==
    \/ \E l \in Lots : OrderlyStart(l)
    \/ StartStep
    \/ \E a \in {20, 60} : BidPlace(1, a)
    \/ \E a \in {10, 20} : BidPlace(2, a)
    \/ TeamDisconnect(2)
    \/ BidStep
    \/ SettleStep

SpecReject == InitReject /\ [][NextReject]_vars

\* a control command arrives (lines 210, 235, 251, 267, 303, 366, 379)
ControlCommand ==
    \/ \E l \in LotIds : AdminStartAuction(l)
    \/ AdminPause
    \/ AdminResume
    \/ \E l \in LotIds : AdminUndoSale(l)
    \/ AdminStartAutoAuction
    \/ AdminStopAutoAuction
    \/ AdminGetAutoAuctionStatus

\* a control command arrives on a socket that is not in adminSockets
Unauthorized == ~adminSockets /\ ControlCommand

(* SpecUnauth: one lot, TIMER_DURATION=1, with the emitted events recorded;   *)
(* the control starts, pauses and resumes the lot in an orderly way, team 1   *)
(* bids 20, and the control socket disconnects and logs in again; while it    *)
(* is not logged in every control command arrives.                            *)
InitUnauth == InitLoggedIn(1, {1}, TRUE)

NextUnauth ==
    \/ \E l \in Lots : OrderlyStart(l)
    \/ StartStep
    \/ BidPlace(1, 20)
    \/ BidStep
    \/ SettleStep
    \/ OrderlyPause
    \/ AdminResume
    \/ AdminDisconnect
    \/ AdminLogin(TRUE)
    \/ Unauthorized

SpecUnauth == InitUnauth /\ [][NextUnauth]_vars

(* SpecNotSold: the environment of SpecUndo with the emitted events         *)
(* recorded, where the control also asks to undo the sale of lot 2, which    *)
(* does not exist, and of lot 1 whatever its status.                         *)
InitNotSold == InitLoggedIn(1, {1}, TRUE)

NextNotSold ==
    \/ \E l \in Lots : OrderlyStart(l)
    \/ StartStep
    \/ \E t \in TeamIds : BidPlace(t, 20)
    \/ BidStep
    \/ SettleStep
    \/ \E l \in LotIds : OrderlyUndo(l)
    \/ UndoStep

SpecNotSold == InitNotSold /\ [][NextNotSold]_vars

\* the team that holds the high bid disconnects while the countdown runs
LeaderDisconnect(t) ==
    /\ auctionTimer
    /\ auctionState.isActive
    /\ auctionState.hbTeam = t
    /\ TeamDisconnect(t)

(* SpecOffline: one lot auctioned by hand, TIMER_DURATION=1; both teams bid  *)
(* 20 or 60 and the team that leads may disconnect while the countdown runs. *)
InitOffline == InitLoggedIn(1, {1}, FALSE)

NextOffline ==
    \/ \E l \in Lots : OrderlyStart(l)
    \/ StartStep
    \/ \E t \in TeamIds, a \in {20, 60} : BidPlace(t, a)
    \/ BidStep
    \/ SettleStep
    \/ \E t \in TeamIds : LeaderDisconnect(t)

SpecOffline == InitOffline /\ [][NextOffline]_vars

\* the control starts a lot when none is in auction and no settlement or
\* start is in flight
StartAfterSettled(l) ==
    /\ ~auctionState.isActive
    /\ settleReqs = {}
    /\ startReqs = {}
    /\ AdminStartAuction(l)

(* SpecStale: two lots (base prices 20 and 10) auctioned by hand one after   *)
(* the other, TIMER_DURATION=1; team 1 bids 10 or 20, and a bid may still be *)
(* in flight when its lot is settled and the next lot is started.            *)
InitStale == InitLoggedIn(1, LotIds, FALSE)

NextStale ==
    \/ \E l \in Lots : StartAfterSettled(l)
    \/ StartStep
    \/ \E a \in {10, 20} : BidPlace(1, a)
    \/ BidStep
    \/ SettleStep

SpecStale == InitStale /\ [][NextStale]_vars

\* the control pauses, or resumes, when no handler is in flight
QuietPause == Quiet /\ OrderlyPause

QuietResume == Quiet /\ AdminResume

\* a write of a settlement fails, while no roster holds more than
\* MaxFaultSales lots
FaultySave(s) ==
    /\ \A t \in Teams : team[t].rosterSlotsFilled <= MaxFaultSales
    /\ SettleWriteFails(s)

(* SpecFault: one lot, TIMER_DURATION=1, team 1 bids 20; a save() of the     *)
(* settlement may fail, and the control re-triggers the settlement by        *)
(* pausing and resuming (which restarts the countdown) when nothing is in    *)
(* flight.                                                                   *)
InitFault == InitLoggedIn(1, {1}, FALSE)

NextFault ==
    \/ \E l \in Lots : OrderlyStart(l)
    \/ StartStep
    \/ BidPlace(1, 20)
    \/ BidStep
    \/ SettleStep
    \/ \E s \in settleReqs : FaultySave(s)
    \/ QuietPause
    \/ QuietResume

SpecFault == InitFault /\ [][NextFault]_vars

\* during auto-run the control starts by hand a lot that is still in the
\* queue, while another lot is in auction and no handler is in flight
ManualOverride(l) ==
    /\ isAutoAuction
    /\ auctionState.isActive
    /\ Quiet
    /\ \E i \in 1..Len(playerQueue) : playerQueue[i] = l
    /\ AdminStartAuction(l)

\* the interval callback runs while no start is in flight
QuietTick == startReqs = {} /\ TimerTick

(* SpecSkip: three lots (base prices 20, 10, 10) in auto-run, TIMER_DURATION *)
(* =1, team 1 bids 20; the control also starts queued lots by hand during    *)
(* the auto-run, so that a lot still in the queue can be sold before the     *)
(* queue reaches it.  The countdown does not tick while a start is in flight.*)
NextSkip ==
    \/ OrderlyAutoStart
    \/ \E l \in Lots : ManualOverride(l)
    \/ AdvanceFire
    \/ StartStep
    \/ BidPlace(1, 20)
    \/ BidStep
    \/ QuietTick
    \/ \E s \in settleReqs : SettleFind(s)
    \/ \E s \in settleReqs : SettleSavePlayer(s)
    \/ \E s \in settleReqs : SettleSaveTeam(s)
    \/ \E s \in settleReqs : SettleSaveState(s)

SpecSkip == InitQueue /\ [][NextSkip]_vars

\* a team bids, the countdown ticks, and the control stops auto-run or pauses,
\* each only while no handler is between two awaits
SerialBid(t, amount) == Quiet /\ BidPlace(t, amount)

SerialTick == bidReqs = {} /\ startReqs = {} /\ TimerTick

QuietStop == Quiet /\ AdminStopAutoAuction

QuietAnyPause == Quiet /\ AdminPause

(* SpecControl: two lots, TIMER_DURATION=1, started by hand or by auto-run;  *)
(* team 1 bids 20; every command, bid and tick arrives while no handler is   *)
(* in progress, so that no two handlers interleave; the control pauses,      *)
(* resumes and stops auto-run at any such moment.                            *)
InitControl == InitLoggedIn(1, LotIds, FALSE)

NextControl ==
    \/ \E l \in Lots : OrderlyStart(l)
    \/ OrderlyAutoStart
    \/ AdvanceFire
    \/ StartStep
    \/ SerialBid(1, 20)
    \/ BidStep
    \/ SerialTick
    \/ \E s \in settleReqs : SettleFind(s)
    \/ \E s \in settleReqs : SettleSavePlayer(s)
    \/ \E s \in settleReqs : SettleSaveTeam(s)
    \/ \E s \in settleReqs : SettleSaveState(s)
    \/ QuietStop
    \/ QuietAnyPause
    \/ QuietResume

SpecControl == InitControl /\ [][NextControl]_vars

\* an await of handleAutoSold completes
SettleProgress ==
    \E s \in settleReqs :
       SettleFind(s) \/ SettleSavePlayer(s) \/ SettleSaveTeam(s) \/ SettleSaveState(s)

\* the event loop runs every callback that is ready: an interval that is set
\* again and again ticks, every await in flight completes, a pending cool-down
\* fires; and the control resumes an auction it has paused
FairControl ==
    /\ SF_vars(SerialTick)
    /\ WF_vars(StartStep)
    /\ WF_vars(BidStep)
    /\ WF_vars(SettleProgress)
    /\ WF_vars(AdvanceFire)
    /\ WF_vars(QuietResume)

(* SpecLive: the environment of SpecControl under FairControl.               *)
SpecLive == InitControl /\ [][NextControl]_vars /\ FairControl

----------------------------------------------------------------------------
(* Properties *)

\* the step in which frame h of bid:place writes currentHighBid, resets the
\* countdown and broadcasts bid:new: the bid is reported accepted
Accepts(h) == h \in bidReqs /\ h.pc = "saveState" /\ h \notin bidReqs'

\* the step in which frame s of handleAutoSold writes the lot's outcome
Resolves(s) == s \in settleReqs /\ s.pc = "savePlayer" /\ s \notin settleReqs'

\* the amounts of the Bid documents of lot l
LotAmounts(l) == {bids[i].amount : i \in {j \in 1..Len(bids) : bids[j].player = l}}

MaxOf(S) == CHOOSE x \in S : \A y \in S : x >= y

\* C1: in every interleaving of bid:place handlers on a lot, a bid is accepted
\* only if no other bid was accepted since the AuctionState it validated
\* against was read, and its amount is strictly greater than the amount
\* accepted before it on that lot (at least the base price for the first).
C1_Claim ==
    [][\A h \in bidReqs :
          Accepts(h) =>
             /\ auctionState.hbAmount = h.hbAmount
             /\ auctionState.hbTeam = h.hbTeam
             /\ (auctionState.currentPlayer = h.lot =>
                   IF auctionState.hbTeam = Null
                   THEN h.amount >= player[h.lot].basePrice
                   ELSE h.amount > auctionState.hbAmount)]_vars

\* C2: a bid is reported accepted only while its lot is still in auction and
\* no settlement of that lot has already read the AuctionState without it.
C2_Claim ==
    [][\A h \in bidReqs :
          Accepts(h) =>
             /\ auctionState.isActive
             /\ auctionState.currentPlayer = h.lot
             /\ \A s \in settleReqs : s.pc # "find" => s.lot # h.lot]_vars

\* C3: when the settlement resolves a lot that has Bid documents, the lot is
\* sold to the bidder of the highest of them, at that amount.
C3_Claim ==
    [][\A s \in settleReqs :
          (Resolves(s) /\ LotAmounts(s.lot) # {}) =>
             /\ s.winner # Null
             /\ s.soldPrice = MaxOf(LotAmounts(s.lot))
             /\ \E i \in 1..Len(bids) :
                   /\ bids[i].player = s.lot
                   /\ bids[i].amount = s.soldPrice
                   /\ bids[i].team = s.winner]_vars

\* C7: a bid is never accepted at an amount equal to the current high bid of
\* its lot when a bidder already holds that high bid.
C7_Claim ==
    [][\A h \in bidReqs :
          (Accepts(h) /\ auctionState.currentPlayer = h.lot
                      /\ auctionState.hbTeam # Null) =>
             h.amount # auctionState.hbAmount]_vars

\* C8: the step that accepts a bid leaves exactly the replenishment value on
\* the countdown, whatever the time left before it.
C8_ResetToReplenish ==
    [][\A h \in bidReqs : Accepts(h) => timerValue' = ReplenishValue]_vars

\* a bid has just been accepted on a running countdown
C8_Witness ==
    /\ auctionTimer
    /\ auctionState.isActive
    /\ auctionState.hbTeam # Null
    /\ timerValue = ReplenishValue
    /\ \E i \in 1..Len(bids) : /\ bids[i].team = auctionState.hbTeam
                               /\ bids[i].amount = auctionState.hbAmount

\* the lots sold to team t, and what they cost it
SoldTo(t) == {l \in Lots : player[l].status = "SOLD" /\ player[l].soldTo = t}

RECURSIVE SumPrices(_)
SumPrices(S) ==
    IF S = {} THEN 0
    ELSE LET l == CHOOSE x \in S : TRUE
         IN player[l].soldPrice + SumPrices(S \ {l})

\* C4: however often the settlement of one activation of a lot is triggered,
\* the lot is settled once: where no sale is undone, once no handler is in
\* progress each team's roster lists each lot sold to it exactly once, its
\* rosterCount counts them, and its budget is the initial budget less their
\* prices (one status transition, one debit, one roster increment per lot).
C4_Claim ==
    Quiet =>
       \A t \in Teams :
          /\ Len(team[t].players) = Cardinality(SoldTo(t))
          /\ \A l \in SoldTo(t) : \E i \in 1..Len(team[t].players) : team[t].players[i] = l
          /\ team[t].rosterSlotsFilled = Cardinality(SoldTo(t))
          /\ team[t].remainingPoints = InitialBudget - SumPrices(SoldTo(t))

\* C6: a bidder's budgetRemaining is never negative.
C6_Claim == \A t \in Teams : team[t].remainingPoints >= 0

\* the lots whose status is IN_AUCTION
InAuction == {l \in Lots : player[l].status = "IN_AUCTION"}

\* C5: whenever no handler is in progress, at most one lot is IN_AUCTION, and
\* while AuctionState.isActive that lot is currentLot.
C5_Claim ==
    Quiet =>
       /\ Cardinality(InAuction) <= 1
       /\ auctionState.isActive => InAuction = {auctionState.currentPlayer}

\* C10: once auto-run has been stopped, a cool-down callback scheduled by an
\* earlier settlement starts no lot: a callback that runs while the mode flag
\* is off leaves the start handlers as they are.
C10_Claim ==
    [][(pendingAdvance' < pendingAdvance /\ ~isAutoAuction) =>
          startReqs' = startReqs]_vars

\* the interval callback that brings the countdown to zero
TickToZero == auctionTimer /\ timerValue' = timerValue - 1 /\ timerValue' <= 0

\* C9: a countdown triggers the settlement at most once, and only a stopped
\* countdown has triggered it; the tick that reaches zero stops the
\* countdown and invokes handleAutoSold once.
C9_FiresOnce ==
    /\ [](fired <= 1 /\ (auctionTimer => (fired = 0 /\ timerValue > 0)))
    /\ [][TickToZero =>
             /\ ~auctionTimer'
             /\ fired' = 1
             /\ Cardinality(settleReqs') = Cardinality(settleReqs) + 1]_vars

\* a countdown has just reached zero: it is stopped, its settlement in flight
C9_Witness ==
    /\ fired = 1
    /\ timerValue = 0
    /\ ~auctionTimer
    /\ \E s \in settleReqs : s.pc = "find"

\* the step in which frame f of startAuctionForPlayer sets its lot IN_AUCTION,
\* or writes the AuctionState and starts the countdown
StartsLot(f) ==
    f \in startReqs /\ f.pc \in {"savePlayer", "saveState"} /\ f \notin startReqs'

\* C11: no lot is set IN_AUCTION or given a countdown while the summary
\* screen is showing, whether the start was asked for by the control or comes
\* from the auto-run queue.
C11_Claim ==
    [][\A f \in startReqs : StartsLot(f) => ~isTeamSummaryShowing]_vars

\* the step in which frame u of admin:undoSale deletes the bids and ends
UndoCompletes(u) == u \in undoReqs /\ u.pc = "deleteBids" /\ u \notin undoReqs'

\* C12: when an undoSale of a SOLD lot completes, the sale is reversed: the
\* lot is UNSOLD with null sale fields and no Bid document, it is off the
\* winner's roster, and the winner's budget and rosterCount are what they
\* were before that sale (the initial budget less the lots still sold to the
\* winner, and the number of those lots).
C12_Claim ==
    [][\A u \in undoReqs :
          UndoCompletes(u) =>
             /\ player'[u.lot].status = "UNSOLD"
             /\ player'[u.lot].soldTo = Null
             /\ player'[u.lot].soldPrice = Null
             /\ ~player'[u.lot].soldAt
             /\ \A i \in 1..Len(bids') : bids'[i].player # u.lot
             /\ \A i \in 1..Len(team'[u.soldTo].players) :
                   team'[u.soldTo].players[i] # u.lot
             /\ team'[u.soldTo].remainingPoints
                   = InitialBudget - SumPrices(SoldTo(u.soldTo))
             /\ team'[u.soldTo].rosterSlotsFilled
                   = Cardinality(SoldTo(u.soldTo))]_vars

\* the lots a build of the auto-run queue takes: those not SOLD
Available == {l \in Lots : player[l].status # "SOLD"}

\* the step of admin:startAutoAuction that builds the queue and hands its
\* first lot to startAuctionForPlayer
Builds(f) ==
    /\ f \in startReqs' \ startReqs
    /\ f.auto
    /\ startReqs \subseteq startReqs'
    /\ pendingAdvance' = pendingAdvance

\* C13: the queue built by admin:startAutoAuction (its first lot, which the
\* handler takes off at once, followed by playerQueue) has as many entries as
\* there are lots not SOLD, holds each of them exactly once, and is ordered by
\* non-increasing basePrice, whatever the shuffle; the carry list is empty.
C13_BuildSorted ==
    [][\A f \in startReqs' :
          Builds(f) =>
             LET q == <<f.lot>> \o playerQueue' IN
             /\ Len(q) = Cardinality(Available)
             /\ \A l \in Available :
                   Cardinality({i \in 1..Len(q) : q[i] = l}) = 1
             /\ \A i, j \in 1..Len(q) :
                   i < j => player[q[i]].basePrice >= player[q[j]].basePrice
             /\ unsoldPlayers' = <<>>]_vars

\* a queue has just been built over the three lots, the two lots of the
\* lower price in shuffled order
C13_Witness ==
    /\ isAutoAuction
    /\ unsoldPlayers = <<>>
    /\ playerQueue = <<3, 2>>
    /\ \E f \in startReqs : f.auto /\ f.pc = "find" /\ f.lot = 1

\* the step in which processNextPlayerInQueue turns the carry list into the
\* queue of the next round (it emits autoAuction:unsoldRound)
RollsOver == "autoAuction:unsoldRound" \in emitted'

\* C14: in auto-run the next round starts only once the queue is exhausted,
\* and its queue (the lot handed to startAuctionForPlayer at once, followed by
\* playerQueue) holds exactly the lots left UNSOLD by the round before, each
\* exactly once; the carry list starts the round empty.
C14_RoundTwo ==
    [][RollsOver =>
          /\ playerQueue = <<>>
          /\ unsoldPlayers' = <<>>
          /\ \E f \in startReqs' \ startReqs :
                LET q == <<f.lot>> \o playerQueue' IN
                /\ f.auto
                /\ {q[i] : i \in 1..Len(q)} = {l \in Lots : player[l].status = "UNSOLD"}
                /\ \A i, j \in 1..Len(q) : i # j => q[i] # q[j]]_vars

\* round 2 has just started over the two lots, both left unsold by round 1
C14_Witness ==
    /\ "autoAuction:unsoldRound" \in emitted
    /\ isAutoAuction
    /\ playerQueue = <<2>>
    /\ \E f \in startReqs : f.auto /\ f.pc = "find" /\ f.lot = 1

\* the number of entries of the carry list q that are lot l
Occurrences(q, l) == Cardinality({i \in 1..Len(q) : q[i] = l})

\* C15: when a settlement that found no bidder writes its outcome, the lot
\* becomes UNSOLD and no team changes; with auto-run on the lot is in the carry
\* list exactly once afterwards, with auto-run off the carry list is unchanged;
\* the rest of that settlement changes no team either and resets
\* currentHighBid to the sentinel.
C15_UnsoldOnce ==
    [][\A s \in settleReqs :
          (s.winner = Null /\ s \notin settleReqs') =>
             /\ team' = team
             /\ s.pc = "savePlayer" =>
                   /\ player'[s.lot].status = "UNSOLD"
                   /\ isAutoAuction => Occurrences(unsoldPlayers', s.lot) = 1
                   /\ ~isAutoAuction => unsoldPlayers' = unsoldPlayers
             /\ s.pc = "saveState" =>
                   /\ auctionState'.hbAmount = AuctionFloor
                   /\ auctionState'.hbTeam = Null]_vars

\* lot 1 has gone unsold again in auto-run while already in the carry list
\* (lot 2 was started by the advance that followed its first unsold outcome)
C15_Witness ==
    /\ isAutoAuction
    /\ playerQueue = <<>>
    /\ unsoldPlayers = <<1>>
    /\ player[1].status = "UNSOLD"
    /\ player[2].status = "IN_AUCTION"
    /\ \E s \in settleReqs : s.pc = "saveState" /\ s.lot = 1 /\ s.winner = Null

\* C16: a settlement that found a bidder writes the lot SOLD to that bidder at
\* the amount it found; its write of the winner takes exactly that amount off
\* the winner's budget as it stands, adds exactly one to its rosterCount, and
\* changes no other team.
C16_Claim ==
    [][\A s \in settleReqs :
          (s.winner # Null /\ s \notin settleReqs') =>
             /\ s.pc = "savePlayer" =>
                   /\ player'[s.lot].status = "SOLD"
                   /\ player'[s.lot].soldTo = s.winner
                   /\ player'[s.lot].soldPrice = s.soldPrice
                   /\ team' = team
             /\ s.pc = "saveTeam" =>
                   /\ team'[s.winner].remainingPoints =
                         team[s.winner].remainingPoints - s.soldPrice
                   /\ team'[s.winner].rosterSlotsFilled =
                         team[s.winner].rosterSlotsFilled + 1
                   /\ \A t \in Teams \ {s.winner} : team'[t] = team[t]
             /\ s.pc = "saveState" => team' = team]_vars

\* C17: the step that pauses leaves the remaining time as it was; while the
\* auction is paused the countdown does not tick and no settlement writes a
\* lot's outcome; the step that resumes starts the countdown and leaves
\* currentHighBid (amount and bidder) as it was.
C17_Claim ==
    [][/\ (~auctionState.isPaused /\ auctionState'.isPaused) =>
             timerValue' = timerValue
       /\ auctionState.isPaused =>
             /\ ~(auctionTimer /\ timerValue' = timerValue - 1)
             /\ \A s \in settleReqs : ~Resolves(s)
       /\ (auctionState.isPaused /\ ~auctionState'.isPaused
                                 /\ startReqs' = startReqs) =>
             /\ auctionTimer'
             /\ auctionState'.hbAmount = auctionState.hbAmount
             /\ auctionState'.hbTeam = auctionState.hbTeam]_vars

\* the step in which frame h of bid:place appends its Bid to the ledger
Appends(h) == h \in bidReqs /\ h.pc = "saveBid" /\ h \notin bidReqs'

\* C18: whenever a bid's acceptance takes effect (its Bid is appended to the
\* ledger, currentHighBid is written), a lot is in auction and the auction is
\* not paused.
C18_Claim ==
    [][\A h \in bidReqs :
          (Appends(h) \/ Accepts(h)) =>
             auctionState.isActive /\ ~auctionState.isPaused]_vars

\* C19: a bid is never accepted from the team that holds the current high bid
\* of its lot: consecutive accepted bids on a lot come from different teams.
C19_Claim ==
    [][\A h \in bidReqs :
          (Accepts(h) /\ auctionState.currentPlayer = h.lot) =>
             h.team # auctionState.hbTeam]_vars

\* C20: a step that rejects a bid (bid:error, sent to the bidding socket only)
\* emits nothing else and leaves the stores, the countdown, the queue, the
\* connections and every other handler as they were.
C20_RejectionFrame ==
    [][("bid:error" \in emitted') =>
          /\ emitted' = {"bid:error"}
          /\ bidReqs' \subseteq bidReqs
          /\ UNCHANGED <<storeVars, timerVars, queueVars, isTeamSummaryShowing,
                         socketVars, settleReqs, startReqs, undoReqs>>]_vars

\* a bid has just been rejected on a lot that has a high bidder, some time
\* after that bidder's bid was accepted
C20_Witness ==
    /\ emitted = {"bid:error"}
    /\ auctionState.isActive
    /\ auctionState.hbTeam # Null
    /\ auctionTimer
    /\ timerValue < ReplenishValue
    /\ bids # <<>>

\* C21: a control command that arrives on a socket that is not an
\* authenticated control is answered with an error on that socket and changes
\* nothing else.
C21_Claim ==
    [][Unauthorized =>
          /\ "error" \in emitted'
          /\ UNCHANGED <<storeVars, timerVars, queueVars, isTeamSummaryShowing,
                         socketVars, frameVars, envVars>>]_vars

\* C22: admin:undoSale from the control on a lot that does not exist or whose
\* status is not SOLD is answered with an error and changes nothing: no team,
\* no lot, no Bid, no AuctionState, and no undo is started.
C22_NotSoldRejected ==
    [][\A l \in LotIds :
          (adminSockets /\ (l \notin Lots \/ player[l].status # "SOLD")
                        /\ AdminUndoSale(l)) =>
             /\ "error" \in emitted'
             /\ UNCHANGED <<storeVars, timerVars, queueVars, frameVars>>]_vars

\* the undo of lot 1 has just been refused while the lot is in auction with
\* a high bidder and a Bid in the ledger
C22_Witness ==
    /\ emitted = {"error"}
    /\ player[1].status = "IN_AUCTION"
    /\ auctionState.hbTeam # Null
    /\ bids # <<>>
    /\ undoReqs = {}

\* C23: the step in which a team disconnects only clears its isOnline flag
\* (budget, roster, lots, Bids, AuctionState and the countdown are as they
\* were); a settlement that finds a disconnected team holding the high bid
\* takes it as the winner at that amount and writes the lot SOLD to it.
C23_OfflineKeepsBid ==
    [][/\ \A t \in TeamIds :
             (t \in connectedTeams /\ t \notin connectedTeams') =>
                /\ team' = [team EXCEPT ![t].isOnline = FALSE]
                /\ UNCHANGED <<player, bids, auctionState, timerVars,
                               queueVars, frameVars>>
       /\ \A s \in settleReqs :
             (/\ s.pc = "find" /\ s \notin settleReqs'
              /\ auctionState.exists /\ auctionState.currentPlayer # Null
              /\ auctionState.hbTeam # Null
              /\ auctionState.hbTeam \notin connectedTeams) =>
                \E r \in settleReqs' :
                   /\ r.id = s.id
                   /\ r.winner = auctionState.hbTeam
                   /\ r.soldPrice = auctionState.hbAmount
       /\ \A s \in settleReqs :
             (Resolves(s) /\ s.winner # Null /\ s.winner \notin connectedTeams) =>
                /\ player'[s.lot].status = "SOLD"
                /\ player'[s.lot].soldTo = s.winner]_vars

\* team 1 disconnected while it led lot 1 and then won it
C23_Witness ==
    /\ Quiet
    /\ 1 \notin connectedTeams
    /\ ~team[1].isOnline
    /\ player[1].status = "SOLD"
    /\ player[1].soldTo = 1
    /\ team[1].players = <<1>>
    /\ team[1].remainingPoints = InitialBudget - player[1].soldPrice

\* C24: in every state a lot whose status is SOLD has soldTo, soldPrice and
\* soldAt all set, and a lot of any other status has all three null.
C24_Claim ==
    \A l \in Lots :
       IF player[l].status = "SOLD"
       THEN player[l].soldTo # Null /\ player[l].soldPrice # Null /\ player[l].soldAt
       ELSE player[l].soldTo = Null /\ player[l].soldPrice = Null /\ ~player[l].soldAt

\* C25: whenever a lot is in auction (isActive), currentHighBid.amount is at
\* least the base price of the current lot.
C25_Claim ==
    (auctionState.isActive /\ auctionState.currentPlayer \in Lots) =>
       auctionState.hbAmount >= player[auctionState.currentPlayer].basePrice

\* C26: once no handler is in progress, whether or not a write of a settlement
\* failed, no partial settlement is visible: a lot that is SOLD is on its
\* winner's roster exactly once and paid for exactly once, and a lot whose
\* outcome is written is not the current lot of an active AuctionState.
C26_Claim ==
    Quiet =>
       /\ \A l \in Lots :
             (auctionState.isActive /\ auctionState.currentPlayer = l) =>
                player[l].status = "IN_AUCTION"
       /\ \A l \in Lots :
             player[l].status = "SOLD" =>
                LET w == player[l].soldTo IN
                /\ Occurrences(team[w].players, l) = 1
                /\ team[w].remainingPoints = InitialBudget - SumPrices(SoldTo(w))
                /\ team[w].rosterSlotsFilled = Cardinality(SoldTo(w))

\* C27: from the completion of a settlement until the next lot is started
\* (the AuctionState exists and is not active), currentPlayer is null,
\* currentHighBid is the sentinel {AuctionFloor, null} and the countdown is
\* stopped.
C27_Claim ==
    (auctionState.exists /\ ~auctionState.isActive) =>
       /\ auctionState.currentPlayer = Null
       /\ auctionState.hbAmount = AuctionFloor
       /\ auctionState.hbTeam = Null
       /\ ~auctionTimer

\* the step in which the cool-down callback runs processNextPlayerInQueue
CoolDownAdvances == pendingAdvance' = pendingAdvance - 1

\* C28: when the advance finds the queue empty and the carry list not, the
\* carry list becomes the queue, the carry list is emptied and the first lot
\* moved is the one it goes on to start; when it finds both empty, the mode
\* flag is cleared, the completion event is emitted and no lot is started.
C28_AdvanceOnEmptyQueue ==
    [][(CoolDownAdvances /\ playerQueue = <<>>) =>
          IF unsoldPlayers # <<>>
          THEN /\ playerQueue' = Tail(unsoldPlayers)
               /\ unsoldPlayers' = <<>>
               /\ \E f \in startReqs' \ startReqs :
                     f.auto /\ f.pc = "find" /\ f.lot = Head(unsoldPlayers)
          ELSE /\ ~isAutoAuction'
               /\ "autoAuction:completed" \in emitted'
               /\ startReqs' = startReqs
               /\ playerQueue' = <<>>
               /\ unsoldPlayers' = <<>>
               /\ UNCHANGED <<storeVars, timerVars>>]_vars

\* the auto-run has just ended on empty lists, every lot sold
C28_Witness ==
    /\ "autoAuction:completed" \in emitted
    /\ ~isAutoAuction
    /\ playerQueue = <<>>
    /\ unsoldPlayers = <<>>
    /\ startReqs = {}
    /\ ~auctionState.isActive
    /\ \A l \in Lots : player[l].status = "SOLD"

C30_Claim ==
    \A t \in Teams :
       /\ team[t].remainingPoints + SumPrices(SoldTo(t)) = InitialBudget
       /\ team[t].rosterSlotsFilled = Cardinality(SoldTo(t))
       /\ Len(team[t].players) = Cardinality(SoldTo(t))

\* C31: at every state with no handler in progress, the countdown is running
\* if and only if a lot is active and the auction is not paused.
C31_Claim ==
    Quiet => (auctionTimer <=> (auctionState.isActive /\ ~auctionState.isPaused))

\* C32: every lot that is started (IN_AUCTION) is eventually settled (SOLD or
\* UNSOLD), under fair timer ticks and an auction that is not left paused
\* forever.
C32_Claim ==
    \A l \in LotIds :
       (player[l].status = "IN_AUCTION") ~> (player[l].status \in {"SOLD", "UNSOLD"})

\* lot l is waiting in the queue or the carry list, or is being started
Held(l) ==
    \/ \E i \in 1..Len(playerQueue) : playerQueue[i] = l
    \/ \E i \in 1..Len(unsoldPlayers) : unsoldPlayers[i] = l
    \/ \E f \in startReqs : f.lot = l

\* C33: in an auto-run driven only by startAutoRun, bids and timer expiries,
\* the completion event is emitted only when every lot is SOLD; while auto-run
\* is on, a lot that is UNSOLD is still held for a start (in the queue, in the
\* carry list of the next round, or being started), so the run does not end.
C33_CompletesWhenAllSold ==
    /\ [][("autoAuction:completed" \in emitted') =>
             \A l \in Lots : player'[l].status = "SOLD"]_vars
    /\ [](isAutoAuction =>
             \A l \in Lots : player[l].status = "UNSOLD" => Held(l))

\* the auto-run has ended with both lots sold to team 1, lot 2 before lot 1:
\* lot 1, first in the queue, went unsold in round 1 and was sold in a later
\* round
C33_Witness ==
    /\ "autoAuction:completed" \in emitted
    /\ ~isAutoAuction
    /\ \A l \in Lots : player[l].status = "SOLD"
    /\ team[1].players = <<2, 1>>

=============================================================================
